---- MODULE Spec2Model ----
(***************************************************************************)
(* Model of the financial dashboard backend: the extraction coercer        *)
(* (gemini_service.py), the in-memory ledger store and projection engine   *)
(* (data_store.py) and the upload / dashboard handlers (routers).          *)
(*                                                                         *)
(* Money is an integer number of thousandths (1000 = 1.00); the annual     *)
(* rate cat is a whole number of percent.  A JSON / Python value that may  *)
(* be missing is a tagged record: Absent (key not in the mapping), Null    *)
(* (None), Bad (text that does not parse) or V(x).                         *)
(***************************************************************************)
EXTENDS Integers, Sequences, FiniteSets, TLC

Absent == [t |-> "absent"]
Null == [t |-> "null"]
Bad == [t |-> "bad"]
V(x) == [t |-> "val", v |-> x]

IsVal(f) == f.t = "val"

\* Python truthiness of a numeric or string value that may be None / missing.
TruthyNum(f) == IsVal(f) /\ f.v # 0
TruthyStr(f) == IsVal(f) /\ f.v # ""

\* dict.get(key, default): the default only replaces a missing key.
Get(f, d) == IF f.t = "absent" THEN d ELSE f

(***************************************************************************)
(* Bounds of the model.                                                    *)
(***************************************************************************)
MaxUsers == 2
MaxUploads == 2

(***************************************************************************)
(* Text: a description is a sequence of tokens; str.strip() removes the    *)
(* blank tokens at both ends and str.lower() lower-cases each token.       *)
(***************************************************************************)
LowerTok(c) ==
    CASE c = "O" -> "o"
      [] c = "X" -> "x"
      [] c = "A" -> "a"
      [] c = " (MSI " -> " (msi "
      [] c = "MSI Purchase" -> "msi purchase"
      [] c = "None" -> "none"
      [] OTHER -> c

Lower(s) == [i \in 1..Len(s) |-> LowerTok(s[i])]

RECURSIVE LStrip(_)
LStrip(s) == IF s # <<>> /\ Head(s) = " " THEN LStrip(Tail(s)) ELSE s

RECURSIVE RStrip(_)
RStrip(s) == IF s # <<>> /\ s[Len(s)] = " " THEN RStrip(SubSeq(s, 1, Len(s) - 1)) ELSE s

Strip(s) == RStrip(LStrip(s))

Digits == <<"0", "1", "2", "3", "4", "5", "6", "7", "8", "9">>

RECURSIVE NatStr(_)
NatStr(n) == IF n < 10 THEN Digits[n + 1] ELSE NatStr(n \div 10) \o Digits[(n % 10) + 1]

\* str() of an int or None inside an f-string.
PyStr(f) == IF IsVal(f) THEN (IF f.v < 0 THEN "-" \o NatStr(-f.v) ELSE NatStr(f.v)) ELSE "None"

(***************************************************************************)
(* Calendar: a date is <<year, month, day>>.                               *)
(***************************************************************************)
IsLeap(y) == (y % 4 = 0 /\ y % 100 # 0) \/ y % 400 = 0

DaysInMonth(y, m) ==
    IF m = 2 THEN (IF IsLeap(y) THEN 29 ELSE 28)
    ELSE IF m \in {4, 6, 9, 11} THEN 30 ELSE 31

\* date + timedelta(days = n), n >= 0
RECURSIVE AddDays(_, _)
AddDays(dt, n) ==
    LET left == DaysInMonth(dt[1], dt[2]) - dt[3]
    IN  IF n <= left THEN <<dt[1], dt[2], dt[3] + n>>
        ELSE IF dt[2] = 12 THEN AddDays(<<dt[1] + 1, 1, 1>>, n - left - 1)
        ELSE AddDays(<<dt[1], dt[2] + 1, 1>>, n - left - 1)

\* datetime(year, month, day) raises ValueError unless the day exists
ValidDate(dt) == dt[2] \in 1..12 /\ dt[3] >= 1 /\ dt[3] <= DaysInMonth(dt[1], dt[2])

\* strftime("%Y-%m")
MonthLabel(dt) == <<dt[1], dt[2]>>

(***************************************************************************)
(* Amount / date normalizers (gemini_service.py).                          *)
(***************************************************************************)
\* None -> 0.0, a number passes through, a string that does not parse -> 0.0
NormalizeAmount(raw) == IF IsVal(raw) THEN raw.v ELSE 0

\* an ISO date is returned, anything else (None, "", unrecognised) is None
NormalizeDate(raw) == IF IsVal(raw) THEN raw ELSE Null

Abs(n) == IF n < 0 THEN -n ELSE n

(***************************************************************************)
(* Extraction coercer (gemini_service.py).                                 *)
(***************************************************************************)
CardInfoKeys == {"name", "issuer", "last4", "credit_limit", "balance", "due_date_day",
                 "minimum_payment", "no_interest_payment", "cat"}

\* truthiness of the card_info mapping: None and {} are falsy
TruthyInfo(ci) == IsVal(ci) /\ \E k \in CardInfoKeys : ci.v[k].t # "absent"

\* summary.get(k): a missing key reads as None
GetNone(f) == IF f.t = "absent" THEN Null ELSE f

DueDay(due) == IF IsVal(due) THEN V(due.v[3]) ELSE Null

_map_summary_to_card_info(summary) ==
    [name |-> GetNone(summary.card_name),
     last4 |-> GetNone(summary.last4),
     issuer |-> GetNone(summary.issuer),
     credit_limit |-> V(NormalizeAmount(summary.credit_limit)),
     balance |-> V(NormalizeAmount(summary.total_balance)),
     due_date_day |-> DueDay(summary.due_date),
     minimum_payment |-> V(NormalizeAmount(summary.minimum_payment)),
     no_interest_payment |-> V(NormalizeAmount(summary.no_interest_payment)),
     cat |-> V(NormalizeAmount(summary.cat))]

EmptySummary ==
    [card_name |-> Absent, last4 |-> Absent, issuer |-> Absent, credit_limit |-> Absent,
     total_balance |-> Absent, due_date |-> Absent, minimum_payment |-> Absent,
     no_interest_payment |-> Absent, cat |-> Absent]

CoerceCardInfo(data) ==
    IF ~TruthyInfo(GetNone(data.card_info)) /\ data.statement_summary.t # "absent"
    THEN V(_map_summary_to_card_info(
             IF IsVal(data.statement_summary) THEN data.statement_summary.v ELSE EmptySummary))
    ELSE GetNone(data.card_info)

\* installment_plan of a raw item: an int is kept, None stays None, a value
\* that int() rejects becomes None
CoercePlan(raw) == IF IsVal(raw) THEN raw ELSE Null

CoerceItem_signed(item, user_id, card_id, id, now) ==
    LET amount_val == NormalizeAmount(item.amount)
        tx_type == IF amount_val < 0 THEN "payment" ELSE "charge"
        iso_date == NormalizeDate(item.date)
    IN  [id |-> id,
         user_id |-> user_id,
         card_id |-> card_id,
         date |-> IF IsVal(iso_date) THEN iso_date.v ELSE now,
         description |-> IF IsVal(item.description) /\ item.description.v # <<>>
                         THEN item.description.v ELSE <<"Unknown Transaction">>,
         category |-> IF TruthyStr(item.category) THEN item.category.v
                      ELSE IF tx_type = "payment" THEN "Payment" ELSE "Other",
         amount |-> amount_val,
         type |-> tx_type,
         installment_plan |-> IF IsVal(item.installment_plan) THEN item.installment_plan
                              ELSE Null,
         installments |-> Null,
         months_paid |-> Null]

CoerceItem(item, user_id, card_id, id, now) ==
    LET amount_val == NormalizeAmount(item.amount)
        tx_type == IF amount_val < 0 THEN "payment" ELSE "charge"
        final_amount == IF tx_type = "payment" THEN Abs(amount_val) ELSE amount_val
        iso_date == NormalizeDate(item.date)
    IN  [id |-> id,
         user_id |-> user_id,
         card_id |-> card_id,
         date |-> IF IsVal(iso_date) THEN iso_date.v ELSE now,
         description |-> IF IsVal(item.description) /\ item.description.v # <<>>
                         THEN item.description.v ELSE <<"Unknown Transaction">>,
         category |-> IF TruthyStr(item.category) THEN item.category.v
                      ELSE IF tx_type = "payment" THEN "Payment" ELSE "Other",
         amount |-> final_amount,
         type |-> tx_type,
         installment_plan |-> CoercePlan(item.installment_plan),
         installments |-> Null,
         months_paid |-> Null]

\* the synthetic transaction of one entry of msi.plans
PlanTotal(plan) == Get(plan.installment_total, V(1))
PlanIndex(plan) == Get(plan.installment_index, PlanTotal(plan))

\* installment_index - 1 raises on None and on text; Transaction(...) rejects
\* an installment_total that is not a number
PlanRaises(plan) == ~IsVal(PlanIndex(plan)) \/ PlanTotal(plan).t = "bad"

CoercePlanTx(plan, user_id, card_id, id, now) ==
    LET total_amount == NormalizeAmount(plan.total_purchase_amount)
        installment_total == PlanTotal(plan)
        installment_index == PlanIndex(plan)
        iso_purchase_date == NormalizeDate(plan.purchase_date)
        merchant == IF plan.merchant.t = "absent" THEN <<"MSI Purchase">>
                    ELSE IF IsVal(plan.merchant) THEN plan.merchant.v ELSE <<"None">>
    IN  [id |-> id,
         user_id |-> user_id,
         card_id |-> card_id,
         date |-> IF IsVal(iso_purchase_date) THEN iso_purchase_date.v ELSE now,
         description |-> merchant \o <<" (MSI ", PyStr(installment_index), " of ",
                                       PyStr(installment_total), ")">>,
         category |-> "MSI",
         amount |-> total_amount,
         type |-> "charge",
         installment_plan |-> installment_total,
         installments |-> installment_total,
         months_paid |-> V(installment_index.v - 1)]

\* transactions_raw or [] ; msi_section.get("plans", [])
RawItems(data) == IF IsVal(data.transactions) THEN data.transactions.v ELSE <<>>
RawPlans(data) == IF IsVal(data.msi) /\ IsVal(data.msi.v.plans) THEN data.msi.v.plans.v ELSE <<>>

\* data.get("msi", {}) is None for "msi": null, and None.get raises; a null
\* "plans" cannot be iterated; a plan without a usable index raises
CoerceRaises(data) ==
    \/ data.msi.t = "null"
    \/ IsVal(data.msi) /\ data.msi.v.plans.t = "null"
    \/ \E i \in 1..Len(RawPlans(data)) : PlanRaises(RawPlans(data)[i])

_coerce_to_output(data, user_id, card_id, idBase, now) ==
    LET items == RawItems(data)
        plans == RawPlans(data)
    IN  [path |-> "coerced",
         card_info |-> CoerceCardInfo(data),
         txs |-> [i \in 1..(Len(items) + Len(plans)) |->
                    IF i <= Len(items)
                    THEN CoerceItem(items[i], user_id, card_id, idBase + i - 1, now)
                    ELSE CoercePlanTx(plans[i - Len(items)], user_id, card_id, idBase + i - 1, now)]]

\* the single error-notice transaction of GeminiService
_fallback_transactions(user_id, card_id, id, now) ==
    << [id |-> id, user_id |-> user_id, card_id |-> card_id, date |-> now,
        description |-> <<"Error procesando el estado - Intenta nuevamente">>,
        category |-> "Other", amount |-> 0, type |-> "charge",
        installment_plan |-> Null, installments |-> Null, months_paid |-> Null] >>

\* extract_transactions_from_pdf / _from_image: disabled adapter, raising
\* call ("raised") or raising coercion ("malformed") give (None, fallback);
\* outcome is what the adapter call did: "raise" or "data"
ExtractWithGemini(enabled, outcome, data, user_id, card_id, idBase, now) ==
    IF ~enabled \/ outcome = "raise" \/ CoerceRaises(data)
    THEN [card_info |-> Null,
          txs |-> _fallback_transactions(user_id, card_id, idBase, now),
          path |-> IF ~enabled THEN "disabled"
                   ELSE IF outcome = "raise" THEN "raised" ELSE "malformed"]
    ELSE _coerce_to_output(data, user_id, card_id, idBase, now)

(***************************************************************************)
(* Ledger store (data_store.py).  A store value st is                      *)
(* [cards, transactions, projections] of one user.                         *)
(***************************************************************************)
RECURSIVE SumSeq(_)
SumSeq(s) == IF s = <<>> THEN 0 ELSE Head(s) + SumSeq(Tail(s))

\* the card_id None
NoCard == 0

\* "if card_id:" filters, None returns the whole list
list_transactions(txs, card_id) ==
    IF card_id = NoCard THEN txs ELSE SelectSeq(txs, LAMBDA t : t.card_id = card_id)

\* mutant: every transaction counts, payments included
category_aggregates_alltypes(txs, card_id) ==
    LET scoped == list_transactions(txs, card_id)
        first == SelectSeq([i \in 1..Len(scoped) |-> i],
                           LAMBDA i : \A j \in 1..(i - 1) :
                                         scoped[j].category # scoped[i].category)
    IN  [k \in 1..Len(first) |->
            [category |-> scoped[first[k]].category,
             total |-> SumSeq([i \in 1..Len(scoped) |->
                                 IF scoped[i].category = scoped[first[k]].category
                                 THEN scoped[i].amount ELSE 0])]]

\* totals[t.category] += t.amount over the charges in scope; the dict keeps
\* the categories in the order of their first charge
category_aggregates(txs, card_id) ==
    LET charges == SelectSeq(list_transactions(txs, card_id), LAMBDA t : t.type = "charge")
        first == SelectSeq([i \in 1..Len(charges) |-> i],
                           LAMBDA i : \A j \in 1..(i - 1) :
                                         charges[j].category # charges[i].category)
    IN  [k \in 1..Len(first) |->
            [category |-> charges[first[k]].category,
             total |-> SumSeq([i \in 1..Len(charges) |->
                                 IF charges[i].category = charges[first[k]].category
                                 THEN charges[i].amount ELSE 0])]]

\* round(x, 2) of the number num/den thousandths, as thousandths; halves go to
\* the even cent
Round2(num, den) ==
    LET unit == 10 * den
        q == num \div unit
        r == num % unit
    IN  10 * (IF 2 * r < unit THEN q
              ELSE IF 2 * r > unit THEN q + 1
              ELSE IF q % 2 = 0 THEN q ELSE q + 1)

\* amount / installment_plan as a multiple of 1/den thousandths (den is a
\* multiple of the plan length)
Installment(amount, plan, den) ==
    IF plan > 0 THEN amount * (den \div plan) ELSE -(amount * (den \div (-plan)))

\* mutant: the months already paid are taken off the months that remain
MsiSchedule_paid(msi, den) ==
    [j \in 1..Len(msi) |->
        [monthly_amt |-> Installment(msi[j].amount, msi[j].installment_plan.v, den),
         months_left |-> msi[j].installment_plan.v
                         - (IF IsVal(msi[j].months_paid) THEN msi[j].months_paid.v ELSE 0),
         total_amt |-> msi[j].amount]]

\* [(tx.amount / tx.installment_plan, tx.installment_plan, tx.amount) for tx in msi_transactions]
MsiSchedule(msi, den) ==
    [j \in 1..Len(msi) |->
        [monthly_amt |-> Installment(msi[j].amount, msi[j].installment_plan.v, den),
         months_left |-> msi[j].installment_plan.v,
         total_amt |-> msi[j].amount]]

\* mutant: the schedule is never decremented
Decrement_none(sched) == sched

\* the "if months_left > 0: months_left - 1" loop over the schedule
Decrement(sched) ==
    [j \in 1..Len(sched) |->
        IF sched[j].months_left > 0
        THEN [sched[j] EXCEPT !.months_left = @ - 1] ELSE sched[j]]

\* sum(monthly_amt for ... if months_left > 0)
MsiThisMonth(sched) ==
    SumSeq([j \in 1..Len(sched) |->
               IF sched[j].months_left > 0 THEN sched[j].monthly_amt ELSE 0])

\* mutant: interest is charged on a credit balance too
Month0Interest_noguard(balance, cat) == Round2(balance * cat, 100 * 12)

\* month 0: balance * monthly_rate if balance > 0 else 0, rounded;
\* monthly_rate = cat / 100 / 12
Month0Interest(balance, cat) ==
    IF balance > 0 THEN Round2(balance * cat, 100 * 12) ELSE 0

\* months 1..5: total_msi_this_month * 0.03 if total_msi_this_month > 0 else 0,
\* rounded
MinPayOf(total_msi_this_month, den) ==
    IF total_msi_this_month > 0 THEN Round2(3 * total_msi_this_month, 100 * den) ELSE 0

RECURSIVE PreCalc_flat(_, _)
\* mutant: the first pass never decrements its copy of the schedule
PreCalc_flat(temp, m) ==
    IF m > 5 THEN <<>>
    ELSE <<MsiThisMonth(temp)>> \o PreCalc_flat(temp, m + 1)

RECURSIVE PreCalc(_, _)
\* first pass, months m..5: the list of total_msi_this_month
PreCalc(temp, m) ==
    IF m > 5 THEN <<>>
    ELSE <<MsiThisMonth(temp)>> \o PreCalc(Decrement(temp), m + 1)

RECURSIVE Emit(_, _, _, _, _)
\* second pass, months i..5
Emit(sched, i, all, den, now) ==
    IF i > 5 THEN <<>>
    ELSE LET total_msi_this_month == MsiThisMonth(sched)
         IN  << [month |-> MonthLabel(AddDays(now, 30 * i)),
                 projected_balance |-> Round2(total_msi_this_month, den),
                 projected_min_payment |-> MinPayOf(total_msi_this_month, den),
                 no_interest_payment |-> Round2(total_msi_this_month, den),
                 total_debt |-> Round2(SumSeq(SubSeq(all, i + 1, 6)), den),
                 projected_interest |-> 0] >>
             \o Emit(Decrement(sched), i + 1, all, den, now)

\* the projection list _generate_mock_projections stores for the card
Projections(card, txs, den, now) ==
    LET msi_transactions ==
            SelectSeq(list_transactions(txs, card.id),
                      LAMBDA tx : tx.type = "charge" /\ TruthyNum(tx.installment_plan))
        min_payment == IF TruthyNum(card.minimum_payment) THEN card.minimum_payment.v ELSE 0
        no_interest_payment ==
            IF TruthyNum(card.no_interest_payment) THEN card.no_interest_payment.v ELSE 0
        cat == IF TruthyNum(card.cat) THEN card.cat.v ELSE 0
        balance == card.balance
        all_no_interest_payments ==
            <<no_interest_payment * den>>
            \o PreCalc(Decrement(MsiSchedule(msi_transactions, den)), 1)
        msi_schedule == MsiSchedule(msi_transactions, den)
        month0 ==
            [month |-> MonthLabel(now),
             projected_balance |-> Round2(no_interest_payment, 1),
             projected_min_payment |-> Round2(min_payment, 1),
             no_interest_payment |-> Round2(no_interest_payment, 1),
             total_debt |-> Round2(SumSeq(all_no_interest_payments), den),
             projected_interest |-> Month0Interest(balance, cat)]
    IN  <<month0>> \o Emit(Decrement(msi_schedule), 1, all_no_interest_payments, den, now)

list_projections(st, card_id) ==
    IF card_id \in DOMAIN st.projections THEN st.projections[card_id] ELSE <<>>

\* mutant: the new records are appended to the card's previous list
_generate_mock_projections_append(st, card_id, den, now) ==
    LET card == CHOOSE c \in {st.cards[i] : i \in 1..Len(st.cards)} : c.id = card_id
    IN  [st EXCEPT !.projections =
            (card_id :> (list_projections(st, card_id)
                         \o Projections(card, st.transactions, den, now))) @@ @]

\* mutant: month 0 carries the total debt of the card's previous list forward
_generate_mock_projections_carry(st, card_id, den, now) ==
    LET card == CHOOSE c \in {st.cards[i] : i \in 1..Len(st.cards)} : c.id = card_id
        old == IF card_id \in DOMAIN st.projections THEN st.projections[card_id] ELSE <<>>
        new == Projections(card, st.transactions, den, now)
    IN  [st EXCEPT !.projections =
            (card_id :> IF old = <<>> THEN new
                        ELSE [new EXCEPT ![1].total_debt = @ + old[1].total_debt]) @@ @]

\* self.projections[user_id][card_id] = projections
_generate_mock_projections(st, card_id, den, now) ==
    LET card == CHOOSE c \in {st.cards[i] : i \in 1..Len(st.cards)} : c.id = card_id
    IN  [st EXCEPT !.projections =
            (card_id :> Projections(card, st.transactions, den, now)) @@ @]

\* the first index of a card with the given last4, 0 when there is none
RECURSIVE FindLast4(_, _, _)
FindLast4(cards, last4, i) ==
    IF i > Len(cards) THEN 0
    ELSE IF cards[i].last4 = last4 THEN i ELSE FindLast4(cards, last4, i + 1)

\* float(card_info.get(key, default)): raises on None or on text
FloatRaises(f, d) == ~IsVal(Get(f, d))

\* int(card_info.get("due_date_day") or default): raises on text
IntOr(f, d) == IF TruthyNum(f) THEN f.v ELSE d

\* the update branch of create_or_update_card.  The assignments run in
\* order, so an exception leaves the earlier ones in place.
UpdateCard(c, ci) ==
    LET c1 == [c EXCEPT !.name = Get(ci.name, c.name),
                        !.issuer = Get(ci.issuer, c.issuer),
                        !.last4 = IF TruthyStr(ci.last4) THEN ci.last4.v ELSE @]
        c2 == [c1 EXCEPT !.credit_limit = Get(ci.credit_limit, V(c.credit_limit)).v]
        c3 == [c2 EXCEPT !.balance = Get(ci.balance, V(c.balance)).v]
        c4 == [c3 EXCEPT !.due_date_day = IntOr(ci.due_date_day, c.due_date_day)]
        c5 == [c4 EXCEPT !.minimum_payment =
                            IF TruthyNum(ci.minimum_payment) THEN ci.minimum_payment ELSE @,
                         !.no_interest_payment =
                            IF TruthyNum(ci.no_interest_payment) THEN ci.no_interest_payment ELSE @,
                         !.cat = IF TruthyNum(ci.cat) THEN ci.cat ELSE @]
    IN  IF FloatRaises(ci.credit_limit, V(c.credit_limit)) THEN [raised |-> TRUE, card |-> c1]
        ELSE IF FloatRaises(ci.balance, V(c.balance)) THEN [raised |-> TRUE, card |-> c2]
        ELSE IF ci.due_date_day.t = "bad" THEN [raised |-> TRUE, card |-> c3]
        ELSE [raised |-> FALSE, card |-> c5]

DefaultCreditLimit == 10000000
DefaultDueDay == 15

\* the create branch: Card(...) raises on a None name or issuer (str
\* fields) and float(None) raises, all before the card is appended
NewCardRaises(ci) ==
    \/ ~IsVal(Get(ci.name, V("Unknown Card")))
    \/ ~IsVal(Get(ci.issuer, V("Unknown Bank")))
    \/ FloatRaises(ci.credit_limit, V(DefaultCreditLimit))
    \/ FloatRaises(ci.balance, V(0))
    \/ ci.due_date_day.t = "bad"

\* mutant: every new card is filed under user 1
NewCard_firstuser(ci, id, user_id) ==
    [id |-> id,
     user_id |-> 1,
     name |-> Get(ci.name, V("Unknown Card")),
     issuer |-> Get(ci.issuer, V("Unknown Bank")),
     last4 |-> IF TruthyStr(ci.last4) THEN ci.last4.v ELSE "0000",
     credit_limit |-> Get(ci.credit_limit, V(DefaultCreditLimit)).v,
     balance |-> Get(ci.balance, V(0)).v,
     due_date_day |-> IntOr(ci.due_date_day, DefaultDueDay),
     minimum_payment |-> IF TruthyNum(ci.minimum_payment) THEN ci.minimum_payment ELSE Null,
     no_interest_payment |->
         IF TruthyNum(ci.no_interest_payment) THEN ci.no_interest_payment ELSE Null,
     cat |-> IF TruthyNum(ci.cat) THEN ci.cat ELSE Null]

NewCard(ci, id, user_id) ==
    [id |-> id,
     user_id |-> user_id,
     name |-> Get(ci.name, V("Unknown Card")),
     issuer |-> Get(ci.issuer, V("Unknown Bank")),
     last4 |-> IF TruthyStr(ci.last4) THEN ci.last4.v ELSE "0000",
     credit_limit |-> Get(ci.credit_limit, V(DefaultCreditLimit)).v,
     balance |-> Get(ci.balance, V(0)).v,
     due_date_day |-> IntOr(ci.due_date_day, DefaultDueDay),
     minimum_payment |-> IF TruthyNum(ci.minimum_payment) THEN ci.minimum_payment ELSE Null,
     no_interest_payment |->
         IF TruthyNum(ci.no_interest_payment) THEN ci.no_interest_payment ELSE Null,
     cat |-> IF TruthyNum(ci.cat) THEN ci.cat ELSE Null]

\* create_or_update_card: [raised, st, card_id, created]
create_or_update_card(st, user_id, ci, newId, den, now) ==
    LET k == IF TruthyStr(ci.last4) THEN FindLast4(st.cards, ci.last4.v, 1) ELSE 0
    IN  IF k > 0
        THEN LET u == UpdateCard(st.cards[k], ci)
             IN  [raised |-> u.raised,
                  st |-> [st EXCEPT !.cards[k] = u.card],
                  card_id |-> st.cards[k].id,
                  created |-> FALSE]
        ELSE IF NewCardRaises(ci)
        THEN [raised |-> TRUE, st |-> st, card_id |-> 0, created |-> FALSE]
        ELSE LET new_card == NewCard(ci, newId, user_id)
             IN  [raised |-> FALSE,
                  st |-> _generate_mock_projections(
                             [st EXCEPT !.cards = Append(@, new_card)], newId, den, now),
                  card_id |-> newId,
                  created |-> TRUE]

\* the tolerance of the amount comparison: 0.01
DupTolerance == 10

\* mutant: the descriptions are compared as written
is_duplicate_transaction_raw(txs, card_id, tx) ==
    LET existing == list_transactions(txs, card_id)
    IN  \E i \in 1..Len(existing) :
            /\ existing[i].date = tx.date
            /\ Abs(existing[i].amount - tx.amount) < DupTolerance
            /\ existing[i].description = tx.description

\* mutant: the transactions of all the user's cards are searched
is_duplicate_transaction_anycard(txs, card_id, tx) ==
    \E i \in 1..Len(txs) :
        /\ txs[i].date = tx.date
        /\ Abs(txs[i].amount - tx.amount) < DupTolerance
        /\ Lower(Strip(txs[i].description)) = Lower(Strip(tx.description))

\* mutant: the whole records are compared
is_duplicate_transaction_record(txs, card_id, tx) ==
    LET existing == list_transactions(txs, card_id)
    IN  \E i \in 1..Len(existing) : existing[i] = tx

is_duplicate_transaction(txs, card_id, tx) ==
    LET existing == list_transactions(txs, card_id)
    IN  \E i \in 1..Len(existing) :
            /\ existing[i].date = tx.date
            /\ Abs(existing[i].amount - tx.amount) < DupTolerance
            /\ Lower(Strip(existing[i].description)) = Lower(Strip(tx.description))

RECURSIVE add_new_transactions_rev(_, _, _, _)
\* mutant: the returned list is built in reverse
add_new_transactions_rev(txs, card_id, new_transactions, added) ==
    IF new_transactions = <<>> THEN [txs |-> txs, added |-> added]
    ELSE LET tx == Head(new_transactions)
         IN  IF ~is_duplicate_transaction(txs, card_id, tx)
             THEN add_new_transactions_rev(Append(txs, tx), card_id, Tail(new_transactions),
                                           <<tx>> \o added)
             ELSE add_new_transactions_rev(txs, card_id, Tail(new_transactions), added)

RECURSIVE add_new_transactions(_, _, _, _)
\* [txs: the user's list after the loop, added: the inserted candidates]
add_new_transactions(txs, card_id, new_transactions, added) ==
    IF new_transactions = <<>> THEN [txs |-> txs, added |-> added]
    ELSE LET tx == Head(new_transactions)
         IN  IF ~is_duplicate_transaction(txs, card_id, tx)
             THEN add_new_transactions(Append(txs, tx), card_id, Tail(new_transactions),
                                       Append(added, tx))
             ELSE add_new_transactions(txs, card_id, Tail(new_transactions), added)

(***************************************************************************)
(* Upload handler (routers/files.py, services/processing.py).              *)
(***************************************************************************)
\* the two mock transactions processing.py returns for an unsupported type
_generate_fallback_transactions(user_id, card_id, filename, idBase, now) ==
    << [id |-> idBase, user_id |-> user_id, card_id |-> card_id, date |-> now,
        description |-> <<"Imported from ", filename, " - Grocery">>,
        category |-> "Groceries", amount |-> 42130, type |-> "charge",
        installment_plan |-> Null, installments |-> Null, months_paid |-> Null],
       [id |-> idBase + 1, user_id |-> user_id, card_id |-> card_id, date |-> now,
        description |-> <<"Imported from ", filename, " - Dining">>,
        category |-> "Dining", amount |-> 28550, type |-> "charge",
        installment_plan |-> Null, installments |-> Null, months_paid |-> Null] >>

\* extract_transactions_from_statement: (card_info, new_txs)
extract_transactions_from_statement(file, enabled, outcome, user_id, idBase, now) ==
    IF file.kind \in {"pdf", "image"}
    THEN ExtractWithGemini(enabled, outcome, file.data, user_id, "temp", idBase, now)
    ELSE [card_info |-> Null,
          txs |-> _generate_fallback_transactions(user_id, "temp", file.name, idBase, now),
          path |-> "unsupported"]

\* the card_info upload_statement passes when nothing was extracted and the
\* user has no card
DefaultCardInfo ==
    [name |-> V("Imported Card"), issuer |-> V("Unknown"), last4 |-> V("0000"),
     credit_limit |-> V(DefaultCreditLimit), balance |-> V(0), due_date_day |-> V(DefaultDueDay),
     minimum_payment |-> Absent, no_interest_payment |-> Absent, cat |-> Absent]

CardIndex(cards, card_id) == CHOOSE i \in 1..Len(cards) : cards[i].id = card_id

\* mutant: payments are summed too
NewCharges_all(added) == SumSeq([i \in 1..Len(added) |-> added[i].amount])

\* sum(tx.amount for tx in added_txs if tx.type == "charge")
NewCharges(added) ==
    SumSeq([i \in 1..Len(added) |-> IF added[i].type = "charge" THEN added[i].amount ELSE 0])

\* the value of a singleton set (binds an intermediate result)
The(S) == CHOOSE x \in S : TRUE

\* "if card_info: ... else: ..." of upload_statement: the card the upload
\* works on, as [raised, st, card_id, created]
UpsertStep(st, user_id, ext, newId, den, now) ==
    IF TruthyInfo(ext.card_info)
    THEN create_or_update_card(st, user_id, ext.card_info.v, newId, den, now)
    ELSE IF st.cards # <<>>
    THEN [raised |-> FALSE, st |-> st, card_id |-> st.cards[1].id, created |-> FALSE]
    ELSE create_or_update_card(st, user_id, DefaultCardInfo, newId, den, now)

\* mutant: the card_id backfill also rewrites the stored transactions
InsertStep_backfillall(up, ext) ==
    add_new_transactions([j \in 1..Len(up.st.transactions) |->
                             [up.st.transactions[j] EXCEPT !.card_id = up.card_id]],
                         up.card_id,
                         [i \in 1..Len(ext.txs) |-> [ext.txs[i] EXCEPT !.card_id = up.card_id]],
                         <<>>)

\* card_id backfill and add_new_transactions
InsertStep(up, ext) ==
    add_new_transactions(up.st.transactions, up.card_id,
                         [i \in 1..Len(ext.txs) |-> [ext.txs[i] EXCEPT !.card_id = up.card_id]],
                         <<>>)

\* "if added_txs: card.balance = card.balance + new_charges", then the
\* projection refresh
BalanceStep(up, ins, den, now) ==
    LET k == CardIndex(up.st.cards, up.card_id)
    IN  _generate_mock_projections(
            [up.st EXCEPT !.transactions = ins.txs,
                          !.cards[k].balance =
                              IF ins.added # <<>> THEN @ + NewCharges(ins.added) ELSE @],
            up.card_id, den, now)

Response(st3, up, ins) ==
    [status |-> "ok",
     added |-> Len(ins.added),
     card_id |-> up.card_id,
     card_name |-> st3.cards[CardIndex(st3.cards, up.card_id)].name,
     transactions |->
         [i \in 1..Len(ins.added) |->
             [description |-> ins.added[i].description,
              amount |-> ins.added[i].amount,
              date |-> ins.added[i].date,
              category |-> ins.added[i].category]]]

\* the part of upload_statement that follows the extraction: card upsert,
\* card_id backfill, duplicate-checked insert, balance update, projection
\* refresh.  An exception of the upsert ends the handler there.
UploadUnit(st, user_id, ext, newId, den, now) ==
    The({ IF up.raised
          THEN [st |-> up.st, created |-> FALSE, response |-> [status |-> "error"]]
          ELSE The({ The({ [st |-> st3, created |-> up.created,
                            response |-> Response(st3, up, ins)] :
                           st3 \in {BalanceStep(up, ins, den, now)} }) :
                     ins \in {InsertStep(up, ext)} }) :
          up \in {UpsertStep(st, user_id, ext, newId, den, now)} })

(***************************************************************************)
(* Dashboard summary (data_store.py, schemas/card.py).                     *)
(***************************************************************************)
\* the fields CardSummary declares without a default, and the ones
\* _card_summary passes to it
CardSummaryRequired == {"id", "name", "last4", "balance", "upcoming_payment_date", "minimum_due"}
CardSummaryPassed == {"id", "name", "balance", "upcoming_payment_date", "minimum_due"}

_card_summary(st, card) ==
    LET projs == list_projections(st, card.id)
        balance_to_show == IF projs # <<>> THEN projs[1].projected_balance ELSE card.balance
    IN  IF ~(CardSummaryRequired \subseteq CardSummaryPassed) \/ ~IsVal(card.name)
        THEN [raised |-> TRUE]
        ELSE [raised |-> FALSE,
              id |-> card.id,
              name |-> card.name,
              balance |-> balance_to_show,
              minimum_due |-> IF TruthyNum(card.minimum_payment)
                              THEN card.minimum_payment.v ELSE 0]

general_summary(st) ==
    LET cards == st.cards
        total_debt ==
            SumSeq([i \in 1..Len(cards) |->
                      IF list_projections(st, cards[i].id) # <<>>
                      THEN list_projections(st, cards[i].id)[1].total_debt
                      ELSE cards[i].balance])
        summaries == [i \in 1..Len(cards) |-> _card_summary(st, cards[i])]
    IN  IF \E i \in 1..Len(cards) : summaries[i].raised
        THEN [status |-> "error"]
        ELSE [status |-> "ok", total_debt |-> total_debt, cards |-> summaries]

\* the due date that follows `today`: this month's when today's day is before
\* due_day, else next month's; a day the month does not have falls back to
\* the largest of 31, 30, 29, 28 that it has
_next_due_date_iso(today, due_day) ==
    LET roll == today[3] >= due_day
        year == IF roll /\ today[2] = 12 THEN today[1] + 1 ELSE today[1]
        month == IF ~roll THEN today[2] ELSE IF today[2] = 12 THEN 1 ELSE today[2] + 1
    IN  IF ValidDate(<<year, month, due_day>>) THEN <<year, month, due_day>>
        ELSE <<year, month,
               CHOOSE day \in 28..31 :
                   /\ ValidDate(<<year, month, day>>)
                   /\ \A later \in (day + 1)..31 : ~ValidDate(<<year, month, later>>)>>

(***************************************************************************)
(* Chat (main.py, routers/chat.py).                                        *)
(***************************************************************************)
\* the POST routes the application registers
PostRoutes == {"/auth/register", "/auth/login", "/files/upload", "/chat/ask", "/chat/ask-stream"}

\* ask_gemini: the summary, the answer for a user without cards, else the
\* answer of the model; any exception becomes a 500
ask_gemini(st, reply) ==
    LET summary == general_summary(st)
    IN  IF summary.status # "ok" THEN [status |-> 500]
        ELSE IF summary.cards = <<>>
        THEN [status |-> 200,
              body |-> [role |-> "assistant", content |-> "No tienes tarjetas registradas",
                        context_cards |-> 0]]
        ELSE IF reply = "raise" THEN [status |-> 500]
        ELSE [status |-> 200,
              body |-> [role |-> "assistant", content |-> reply,
                        context_cards |-> Len(summary.cards)]]

\* what the application answers to an authenticated POST of a JSON body:
\* 404 for a path without a route, 422 for a body without the field
\* ChatRequest requires
ChatPost(path, body, st, reply) ==
    IF path \notin PostRoutes THEN [status |-> 404]
    ELSE IF "message" \notin DOMAIN body THEN [status |-> 422]
    ELSE ask_gemini(st, reply)

(***************************************************************************)
(* The statements the model uploads: what the extraction adapter returns   *)
(* for each file.                                                          *)
(***************************************************************************)
Item(amount, date, description, category, plan) ==
    [amount |-> amount, date |-> date, description |-> description,
     category |-> category, installment_plan |-> plan]

Plan(merchant, amount, total, index, date) ==
    [merchant |-> merchant, total_purchase_amount |-> amount, installment_total |-> total,
     installment_index |-> index, purchase_date |-> date]

Summary(name, last4, issuer, limit, balance, due, minimum, nip, cat) ==
    [card_name |-> name, last4 |-> last4, issuer |-> issuer, credit_limit |-> limit,
     total_balance |-> balance, due_date |-> due, minimum_payment |-> minimum,
     no_interest_payment |-> nip, cat |-> cat]

EmptyInfo == [k \in CardInfoKeys |-> Absent]

Current(summary, items, msi) ==
    [card_info |-> Absent, statement_summary |-> V(summary), transactions |-> V(items), msi |-> msi]

Legacy(info, items) ==
    [card_info |-> V(info), statement_summary |-> Absent, transactions |-> V(items), msi |-> Absent]

OXXO == <<"O", "X", "X", "O">>
oxxo == <<" ", "o", "x", "x", "o", " ">>
AMZ == <<"A", "m", "z">>
AmZ == <<"A", "m", " ", "Z">>
Am_Z == <<"A", "m", " ", " ", "Z">>
D1 == <<2025, 10, 12>>
D2 == <<2025, 10, 13>>

\* a full statement of card 1111: a charge, a near copy of it (other case,
\* blanks, 0.005 more), a payment and a 3-month plan at its first month
StmtA ==
    [kind |-> "pdf", name |-> "a.pdf",
     data |-> Current(
        Summary(V("Gold"), V("1111"), V("BBVA"), V(50000000), V(1000000),
                V(<<2025, 11, 15>>), V(200000), V(1000000), V(37)),
        << Item(V(75000), V(D1), V(OXXO), V("Groceries"), Null),
           Item(V(75005), V(D1), V(oxxo), Null, Absent),
           Item(V(-150000), V(D2), V(AMZ), Null, Null) >>,
        V([plans |-> V(<< Plan(V(AMZ), V(100000), V(3), V(1), V(D1)) >>)]))]

\* the next statement of card 1111: no card name, a credit balance, no
\* minimum or rate; the old charge again, one 0.02 above it, one a day
\* later; the plan at its second month and a refunded 6-month plan
StmtB ==
    [kind |-> "image", name |-> "b.png",
     data |-> Current(
        Summary(Null, V("1111"), V("BBVA"), Null, V(-500000),
                Bad, Null, V(250004), Null),
        << Item(V(75000), V(D1), V(OXXO), V("Groceries"), Null),
           Item(V(75020), V(D1), V(OXXO), V("Groceries"), Null),
           Item(V(75000), V(D2), V(OXXO), V("Groceries"), Null) >>,
        V([plans |-> V(<< Plan(V(AMZ), V(100000), V(3), V(2), V(D1)),
                          Plan(Absent, V(-60000), V(6), Absent, Null) >>)]))]

\* a statement without last4: a 2-month purchase and an item whose amount
\* and date do not parse
StmtC ==
    [kind |-> "pdf", name |-> "c.pdf",
     data |-> Current(
        Summary(V("Nu"), Null, V("Nu"), V(20000000), V(0), Null, V(0), V(0), V(0)),
        << Item(V(102000), V(D2), V(AMZ), V("Shopping"), V(2)),
           Item(Bad, Bad, Null, Null, Bad) >>,
        Absent)]

\* a legacy payload for card 1111 whose credit_limit is null
StmtD ==
    [kind |-> "pdf", name |-> "d.pdf",
     data |-> Legacy([EmptyInfo EXCEPT !.last4 = V("1111"), !.issuer = V("Citi"),
                                       !.credit_limit = Null, !.balance = V(500000)],
                     << Item(V(20000), V(D1), V(AMZ), Null, Null) >>)]

\* a legacy payload with an empty card_info
StmtE ==
    [kind |-> "image", name |-> "e.jpg",
     data |-> Legacy(EmptyInfo, << Item(V(30000), V(D2), V(OXXO), V("Dining"), Null),
                                   Item(V(20000), V(D2), V(AmZ), Null, Null),
                                   Item(V(20000), V(D2), V(Am_Z), Null, Null) >>)]

\* a payload whose msi section is null
StmtF ==
    [kind |-> "pdf", name |-> "f.pdf",
     data |-> [card_info |-> Absent,
               statement_summary |-> V([EmptySummary EXCEPT !.last4 = V("2222")]),
               transactions |-> V(<< Item(V(10000), V(D1), V(AMZ), Null, Null) >>),
               msi |-> Null]]

\* a statement of card 3333 with a 3-month plan whose installment_index is
\* null
StmtH ==
    [kind |-> "pdf", name |-> "h.pdf",
     data |-> Current(
        Summary(V("Plat"), V("3333"), V("Amex"), V(10000000), V(90000),
                V(<<2025, 11, 20>>), V(30000), V(90000), V(40)),
        << Item(V(50000), V(D1), V(OXXO), Null, Null) >>,
        V([plans |-> V(<< Plan(V(AMZ), V(90000), V(3), Null, V(D1)) >>)]))]

\* a legacy payload for card 1111 with a new balance and a due_date_day
\* that is text
StmtI ==
    [kind |-> "image", name |-> "i.png",
     data |-> Legacy([EmptyInfo EXCEPT !.last4 = V("1111"), !.credit_limit = V(50000000),
                                       !.balance = V(800000), !.due_date_day = Bad],
                     << Item(V(45000), V(D2), V(AMZ), Null, Null) >>)]

\* a file that is neither a PDF nor an image
StmtG ==
    [kind |-> "other", name |-> "g.csv",
     data |-> Legacy(EmptyInfo, <<>>)]

Files == {StmtA, StmtB, StmtC, StmtD, StmtE, StmtF, StmtG, StmtH, StmtI}

FileNames == {f.name : f \in Files}
File(name) == CHOOSE f \in Files : f.name = name

\* the plan lengths that occur in the files, and a common multiple of them:
\* installment amounts are kept as exact multiples of 1/PlanDen thousandths
PlanLengths(data) ==
    {Abs(RawItems(data)[i].installment_plan.v) :
        i \in {j \in 1..Len(RawItems(data)) : TruthyNum(RawItems(data)[j].installment_plan)}}
    \cup
    {Abs(PlanTotal(RawPlans(data)[i]).v) :
        i \in {j \in 1..Len(RawPlans(data)) : TruthyNum(PlanTotal(RawPlans(data)[j]))}}

RECURSIVE Product(_)
Product(S) == IF S = {} THEN 1 ELSE LET x == CHOOSE y \in S : TRUE IN x * Product(S \ {x})

PlanDen == Product(UNION {PlanLengths(f.data) : f \in Files})

StartDate == <<2025, 11, 3>>

(***************************************************************************)
(* State.                                                                  *)
(***************************************************************************)
VARIABLES
    cards,          \* DataStore.cards: user id -> list of Card
    transactions,   \* DataStore.transactions: user id -> list of Transaction
    projections,    \* DataStore.projections: user id -> card id -> list
    nextId,         \* the next fresh uuid
    today,          \* datetime.utcnow().date()
    enabled,        \* GeminiService.enabled
    pc,             \* where each upload request stands
    req,            \* the user and the file of each upload request
    ext,            \* card_info and new_txs of each upload request, once extracted
    resp,           \* the response of each finished upload request
    overlapped,     \* the pairs of upload requests that were in flight together
    lastSummary,    \* the result of the last GET /dashboard/summary
    unit,           \* the upload whose mutation unit a reader thread can see half done
    detail,         \* the GET /dashboard/card/{card_id} request of a worker thread
    due,            \* the last call of _next_due_date_iso and what it returned
    lastRun,        \* the last stand-alone run of the projection engine
    lastChat        \* the last POST under /chat and its response

vars == <<cards, transactions, projections, nextId, today, enabled, pc, req, ext, resp,
          overlapped, lastSummary, unit, detail, due, lastRun, lastChat>>

Uploads == 1..MaxUploads
Users == 1..Len(cards)

St(u) == [cards |-> cards[u], transactions |-> transactions[u], projections |-> projections[u]]

NoReq == [user |-> 0, file |-> ""]
NoExt == [path |-> "none"]
InFlight(u) == pc[u] \in {"reading", "extracting"}
NoResp == [status |-> "none"]
NoUnit == [u |-> 0]
NoDetail == [stage |-> "none"]
NoDue == [due_day |-> 0]
NoRun == [user |-> 0, days |-> 0]
NoChat == [user |-> 0]
ReadStages == {"txs", "cats", "projs", "ret"}

\* the store states between two mutation units that a request in progress
\* for the user could have read as a whole
Observe(d, user, st) ==
    IF d.stage \in ReadStages /\ d.user = user
    THEN [d EXCEPT !.seen = @ \cup {st}] ELSE d

Init ==
    /\ cards = <<>>
    /\ transactions = <<>>
    /\ projections = <<>>
    /\ nextId = 1
    /\ today = StartDate
    /\ enabled \in BOOLEAN
    /\ pc = [u \in Uploads |-> "idle"]
    /\ req = [u \in Uploads |-> NoReq]
    /\ ext = [u \in Uploads |-> NoExt]
    /\ resp = [u \in Uploads |-> NoResp]
    /\ overlapped = {}
    /\ lastSummary = [user |-> 0, result |-> NoResp]
    /\ unit = NoUnit
    /\ detail = NoDetail
    /\ due = NoDue
    /\ lastRun = NoRun
    /\ lastChat = NoChat

\* POST /auth/register: create_user gives the user empty containers
Register ==
    /\ Len(cards) < MaxUsers
    /\ cards' = Append(cards, <<>>)
    /\ transactions' = Append(transactions, <<>>)
    /\ projections' = Append(projections, <<>>)
    /\ UNCHANGED <<nextId, today, enabled, pc, req, ext, resp, overlapped, lastSummary, unit, detail, due, lastRun, lastChat>>

\* POST /files/upload arrives for an authenticated user; the handler runs
\* up to "await f.read()"
StartUpload(u, user, file) ==
    /\ unit = NoUnit
    /\ pc[u] = "idle"
    /\ u > 1 => pc[u - 1] # "idle"
    /\ user \in Users
    /\ pc' = [pc EXCEPT ![u] = "reading"]
    /\ req' = [req EXCEPT ![u] = [user |-> user, file |-> file]]
    /\ overlapped' = overlapped \cup {{u, v} : v \in {w \in Uploads : InFlight(w)}}
    /\ UNCHANGED <<cards, transactions, projections, nextId, today, enabled, ext, resp,
                   lastSummary, unit, detail, due, lastRun, lastChat>>

\* the read completes; the handler runs up to the await of the extraction
ReadFile(u) ==
    /\ unit = NoUnit
    /\ pc[u] = "reading"
    /\ pc' = [pc EXCEPT ![u] = "extracting"]
    /\ UNCHANGED <<cards, transactions, projections, nextId, today, enabled, req, ext, resp,
                   overlapped, lastSummary, unit, detail, due, lastRun, lastChat>>

\* the extraction returns and the handler runs to its end without another
\* await
FinishUpload(u, outcome) ==
    /\ unit = NoUnit
    /\ pc[u] = "extracting"
    /\ \E e \in {extract_transactions_from_statement(File(req[u].file), enabled, outcome,
                                                     req[u].user, nextId, today)} :
       \E r \in {UploadUnit(St(req[u].user), req[u].user, e, nextId + Len(e.txs), PlanDen,
                            today)} :
       LET user == req[u].user
           n == Len(e.txs)
       IN  /\ cards' = [cards EXCEPT ![user] = r.st.cards]
           /\ transactions' = [transactions EXCEPT ![user] = r.st.transactions]
           /\ projections' = [projections EXCEPT ![user] = r.st.projections]
           /\ nextId' = nextId + n + (IF r.created THEN 1 ELSE 0)
           /\ ext' = [ext EXCEPT ![u] = e]
           /\ resp' = [resp EXCEPT ![u] = r.response]
           /\ detail' = Observe(detail, user, r.st)
    /\ pc' = [pc EXCEPT ![u] = "done"]
    /\ UNCHANGED <<today, enabled, req, overlapped, lastSummary, unit, due, lastRun, lastChat>>

\* the same handler seen from the worker threads that serve the "def"
\* routes: the event loop thread runs the code after the extraction without
\* a lock, so such a thread can run after the card upsert, after the
\* insert and after the balance update.  Coroutines of the loop cannot.
\* The steps are taken apart only while a thread is there to read.
BeginUnit(u, outcome) ==
    /\ unit = NoUnit
    /\ detail.stage \in ReadStages
    /\ pc[u] = "extracting"
    /\ \E e \in {extract_transactions_from_statement(File(req[u].file), enabled, outcome,
                                                     req[u].user, nextId, today)} :
       \E up \in {UpsertStep(St(req[u].user), req[u].user, e, nextId + Len(e.txs), PlanDen,
                             today)} :
       /\ ~up.raised
       /\ \E ins \in {InsertStep(up, e)} :
          \E st3 \in {BalanceStep(up, ins, PlanDen, today)} :
          LET user == req[u].user
          IN  /\ cards' = [cards EXCEPT ![user] = up.st.cards]
              /\ transactions' = [transactions EXCEPT ![user] = up.st.transactions]
              /\ projections' = [projections EXCEPT ![user] = up.st.projections]
              /\ nextId' = nextId + Len(e.txs) + (IF up.created THEN 1 ELSE 0)
              /\ ext' = [ext EXCEPT ![u] = e]
              /\ unit' = [u |-> u,
                          before |-> St(user),
                          rest |-> << [up.st EXCEPT !.transactions = ins.txs],
                                      [up.st EXCEPT !.transactions = ins.txs,
                                                    !.cards = st3.cards],
                                      st3 >>,
                          response |-> Response(st3, up, ins)]
    /\ pc' = [pc EXCEPT ![u] = "mutating"]
    /\ UNCHANGED <<today, enabled, req, resp, overlapped, lastSummary, detail, due, lastRun, lastChat>>

\* the next step of the unit: the insert, the balance update, the
\* projection refresh with the response
StepUnit ==
    /\ unit # NoUnit
    /\ LET user == req[unit.u].user
           st == Head(unit.rest)
           last == Len(unit.rest) = 1
       IN  /\ cards' = [cards EXCEPT ![user] = st.cards]
           /\ transactions' = [transactions EXCEPT ![user] = st.transactions]
           /\ projections' = [projections EXCEPT ![user] = st.projections]
           /\ unit' = IF last THEN NoUnit ELSE [unit EXCEPT !.rest = Tail(@)]
           /\ pc' = IF last THEN [pc EXCEPT ![unit.u] = "done"] ELSE pc
           /\ resp' = IF last THEN [resp EXCEPT ![unit.u] = unit.response] ELSE resp
           /\ detail' = IF last THEN Observe(detail, user, st) ELSE detail
    /\ UNCHANGED <<nextId, today, enabled, req, ext, overlapped, lastSummary, due, lastRun, lastChat>>

\* GET /dashboard/card/{card_id} in a worker thread, while an upload of the
\* user is waiting for its extraction: get_card finds the card
DetailStart(user, card_id) ==
    /\ detail = NoDetail
    /\ unit = NoUnit
    /\ user \in Users
    /\ card_id \in {cards[user][i].id : i \in 1..Len(cards[user])}
    /\ \E u \in Uploads : req[u].user = user /\ pc[u] = "extracting"
    /\ detail' = [stage |-> "txs",
                  user |-> user,
                  card_id |-> card_id,
                  transactions |-> <<>>,
                  category_aggregates |-> <<>>,
                  projections |-> <<>>,
                  card |-> Null,
                  seen |-> {St(user)}]
    /\ UNCHANGED <<cards, transactions, projections, nextId, today, enabled, pc, req, ext, resp,
                   overlapped, lastSummary, unit, due, lastRun, lastChat>>

\* store.list_transactions(user.id, card_id)
DetailTransactions ==
    /\ detail.stage = "txs"
    /\ detail' = [detail EXCEPT
                     !.stage = "cats",
                     !.transactions = list_transactions(transactions[detail.user], detail.card_id)]
    /\ UNCHANGED <<cards, transactions, projections, nextId, today, enabled, pc, req, ext, resp,
                   overlapped, lastSummary, unit, due, lastRun, lastChat>>

\* store.category_aggregates(user.id, card_id)
DetailAggregates ==
    /\ detail.stage = "cats"
    /\ detail' = [detail EXCEPT
                     !.stage = "projs",
                     !.category_aggregates =
                         category_aggregates(transactions[detail.user], detail.card_id)]
    /\ UNCHANGED <<cards, transactions, projections, nextId, today, enabled, pc, req, ext, resp,
                   overlapped, lastSummary, unit, due, lastRun, lastChat>>

\* store.list_projections(user.id, card_id)
DetailProjections ==
    /\ detail.stage = "projs"
    /\ detail' = [detail EXCEPT
                     !.stage = "ret",
                     !.projections = list_projections(St(detail.user), detail.card_id)]
    /\ UNCHANGED <<cards, transactions, projections, nextId, today, enabled, pc, req, ext, resp,
                   overlapped, lastSummary, unit, due, lastRun, lastChat>>

\* the return: the Card object get_card found is serialized now, with the
\* fields it has now
DetailReturn ==
    /\ detail.stage = "ret"
    /\ detail' = [detail EXCEPT
                     !.stage = "done",
                     !.card = cards[detail.user][CardIndex(cards[detail.user], detail.card_id)],
                     !.seen = IF unit # NoUnit /\ req[unit.u].user = detail.user
                              THEN @ \cup {unit.rest[Len(unit.rest)]} ELSE @]
    /\ UNCHANGED <<cards, transactions, projections, nextId, today, enabled, pc, req, ext, resp,
                   overlapped, lastSummary, unit, due, lastRun, lastChat>>

\* the response is sent; one such request is followed
DetailClose ==
    /\ detail.stage = "done"
    /\ detail' = [stage |-> "closed"]
    /\ UNCHANGED <<cards, transactions, projections, nextId, today, enabled, pc, req, ext, resp,
                   overlapped, lastSummary, unit, due, lastRun, lastChat>>

\* GET /dashboard/summary
GetSummary(user) ==
    /\ user \in Users
    /\ lastSummary' = [user |-> user, result |-> general_summary(St(user))]
    /\ UNCHANGED <<cards, transactions, projections, nextId, today, enabled, pc, req, ext, resp,
                   overlapped, unit, detail, due, lastRun, lastChat>>

Next ==
    \/ Register
    \/ \E u \in Uploads, user \in 1..MaxUsers, file \in FileNames : StartUpload(u, user, file)
    \/ \E u \in Uploads : ReadFile(u)
    \/ \E u \in Uploads, outcome \in {"data", "raise"} : FinishUpload(u, outcome)
    \/ \E user \in 1..MaxUsers : GetSummary(user)
    \/ \E u \in Uploads, outcome \in {"data", "raise"} : BeginUnit(u, outcome)
    \/ StepUnit
    \/ \E user \in 1..MaxUsers, card_id \in 1..nextId : DetailStart(user, card_id)
    \/ DetailTransactions
    \/ DetailAggregates
    \/ DetailProjections
    \/ DetailReturn
    \/ DetailClose

Spec == Init /\ [][Next]_vars

(***************************************************************************)
(* The due-date calculator on its own: any day of DueYears as today, any   *)
(* due day of DueDays.                                                     *)
(***************************************************************************)
DueYears == {2024, 2025}
DueDays == 1..31

DueDates == {dt \in DueYears \X (1..12) \X (1..31) : ValidDate(dt)}

DueInit ==
    /\ cards = <<>>
    /\ transactions = <<>>
    /\ projections = <<>>
    /\ nextId = 1
    /\ today \in DueDates
    /\ enabled = TRUE
    /\ pc = [u \in Uploads |-> "idle"]
    /\ req = [u \in Uploads |-> NoReq]
    /\ ext = [u \in Uploads |-> NoExt]
    /\ resp = [u \in Uploads |-> NoResp]
    /\ overlapped = {}
    /\ lastSummary = [user |-> 0, result |-> NoResp]
    /\ unit = NoUnit
    /\ detail = NoDetail
    /\ due = NoDue
    /\ lastRun = NoRun
    /\ lastChat = NoChat

\* DataStore._next_due_date_iso(due_day) is called on the day `today`
NextDueDate(due_day) ==
    /\ due' = [due_day |-> due_day, date |-> _next_due_date_iso(today, due_day)]
    /\ UNCHANGED <<cards, transactions, projections, nextId, today, enabled, pc, req, ext,
                   resp, overlapped, lastSummary, unit, detail, lastRun, lastChat>>

DueNext == \E due_day \in DueDays : NextDueDate(due_day)

DueSpec == DueInit /\ [][DueNext]_vars

(***************************************************************************)
(* The projection engine on its own: one user, a ledger left by one or two *)
(* uploads on the first day, any day of EngineYears as that day, and at    *)
(* most MaxDays midnights after it.                                        *)
(***************************************************************************)
MaxDays == 1
EngineYears == {2024, 2025}
EngineDates == {dt \in EngineYears \X (1..12) \X (1..31) : ValidDate(dt)}

\* the statements uploaded, in order, before the engine is run again
EngineUploads == { <<StmtA>>, <<StmtA, StmtB>>, <<StmtA, StmtE>>, <<StmtC>>, <<StmtE>> }

EmptyStore == [cards |-> <<>>, transactions |-> <<>>, projections |-> <<>>]

\* the store and the next fresh id after user 1 uploaded the files on `now`
RECURSIVE Ingest(_, _, _, _)
Ingest(st, files, idBase, now) ==
    IF files = <<>> THEN [st |-> st, nextId |-> idBase]
    ELSE LET e == extract_transactions_from_statement(Head(files), TRUE, "data", 1, idBase, now)
             r == UploadUnit(st, 1, e, idBase + Len(e.txs), PlanDen, now)
         IN  Ingest(r.st, Tail(files),
                    idBase + Len(e.txs) + (IF r.created THEN 1 ELSE 0), now)

EngineInit ==
    /\ today \in EngineDates
    /\ \E files \in EngineUploads :
       \E r \in {Ingest(EmptyStore, files, 1, today)} :
          /\ cards = <<r.st.cards>>
          /\ transactions = <<r.st.transactions>>
          /\ projections = <<r.st.projections>>
          /\ nextId = r.nextId
    /\ enabled = TRUE
    /\ pc = [u \in Uploads |-> "idle"]
    /\ req = [u \in Uploads |-> NoReq]
    /\ ext = [u \in Uploads |-> NoExt]
    /\ resp = [u \in Uploads |-> NoResp]
    /\ overlapped = {}
    /\ lastSummary = [user |-> 0, result |-> NoResp]
    /\ unit = NoUnit
    /\ detail = NoDetail
    /\ due = NoDue
    /\ lastRun = NoRun
    /\ lastChat = NoChat

\* store._generate_mock_projections(user_id, card_id) for a card of the user
RunProjections(user, card_id) ==
    /\ user \in Users
    /\ card_id \in {cards[user][i].id : i \in 1..Len(cards[user])}
    /\ \E st \in {_generate_mock_projections(St(user), card_id, PlanDen, today)} :
          projections' = [projections EXCEPT ![user] = st.projections]
    /\ lastRun' = [user |-> user, card_id |-> card_id, date |-> today,
                   days |-> lastRun.days,
                   again |-> /\ lastRun.user = user
                             /\ lastRun.card_id = card_id
                             /\ lastRun.date = today]
    /\ UNCHANGED <<cards, transactions, nextId, today, enabled, pc, req, ext, resp,
                   overlapped, lastSummary, unit, detail, due, lastChat>>

\* midnight UTC: datetime.utcnow().date() is the next day
NextDay ==
    /\ lastRun.days < MaxDays
    /\ today' = AddDays(today, 1)
    /\ lastRun' = [lastRun EXCEPT !.days = @ + 1]
    /\ UNCHANGED <<cards, transactions, projections, nextId, enabled, pc, req, ext, resp,
                   overlapped, lastSummary, unit, detail, due, lastChat>>

EngineNext ==
    \/ \E user \in 1..MaxUsers, card_id \in 1..nextId : RunProjections(user, card_id)
    \/ NextDay

EngineSpec == EngineInit /\ [][EngineNext]_vars

(***************************************************************************)
(* The chat routes: user 1 has uploaded nothing or some statements, other  *)
(* users register, and each of them posts to a path under /chat.           *)
(***************************************************************************)
ChatPaths == {"/chat/send", "/chat/ask"}
ChatBodies == {[content |-> "Hello assistant"], [message |-> "Hello assistant"]}
ChatReplies == {"Hola", "raise"}

\* what user 1 uploaded before: nothing, one statement, or two
ChatUploads == {<<>>} \cup {<<f>> : f \in Files} \cup EngineUploads

ChatInit ==
    /\ today = StartDate
    /\ \E files \in ChatUploads :
       \E r \in {Ingest(EmptyStore, files, 1, today)} :
          /\ cards = <<r.st.cards>>
          /\ transactions = <<r.st.transactions>>
          /\ projections = <<r.st.projections>>
          /\ nextId = r.nextId
    /\ enabled = TRUE
    /\ pc = [u \in Uploads |-> "idle"]
    /\ req = [u \in Uploads |-> NoReq]
    /\ ext = [u \in Uploads |-> NoExt]
    /\ resp = [u \in Uploads |-> NoResp]
    /\ overlapped = {}
    /\ lastSummary = [user |-> 0, result |-> NoResp]
    /\ unit = NoUnit
    /\ detail = NoDetail
    /\ due = NoDue
    /\ lastRun = NoRun
    /\ lastChat = NoChat

\* a registered user POSTs body to path with a valid bearer token; reply
\* is what the model would answer
ChatSend(user, path, body, reply) ==
    /\ user \in Users
    /\ lastChat' = [user |-> user, path |-> path, body |-> body,
                    response |-> ChatPost(path, body, St(user), reply)]
    /\ UNCHANGED <<cards, transactions, projections, nextId, today, enabled, pc, req, ext,
                   resp, overlapped, lastSummary, unit, detail, due, lastRun>>

ChatNext ==
    \/ Register
    \/ \E user \in 1..MaxUsers, path \in ChatPaths, body \in ChatBodies, reply \in ChatReplies :
          ChatSend(user, path, body, reply)

ChatSpec == ChatInit /\ [][ChatNext]_vars

(***************************************************************************)
(* Properties.                                                             *)
(***************************************************************************)
Finished(u) == pc[u] = "done"
FinishedOk(u) == pc[u] = "done" /\ resp[u].status = "ok"

\* the step in which upload u runs from the extraction to its end
Finishing(u) == pc[u] = "extracting" /\ pc'[u] = "done"

SameKey(a, b) ==
    /\ a.date = b.date
    /\ Lower(Strip(a.description)) = Lower(Strip(b.description))

\* C1: no two stored transactions of one card have the same date, the same
\* description up to case and surrounding blanks, and amounts less than 0.01
\* apart
C1_NoDuplicateStored ==
    \A user \in Users :
        \A i, j \in 1..Len(transactions[user]) :
            LET a == transactions[user][i]
                b == transactions[user][j]
            IN  (i < j /\ a.card_id = b.card_id /\ SameKey(a, b))
                    => Abs(a.amount - b.amount) >= DupTolerance

\* an upload stored some of its candidates and discarded another as a duplicate
C1_Witness ==
    \E u \in Uploads :
        /\ FinishedOk(u)
        /\ resp[u].added > 0
        /\ resp[u].added < Len(ext[u].txs)

\* C3: every stored transaction has a non-negative amount
C3_AmountNonNegative ==
    \A user \in Users :
        \A i \in 1..Len(transactions[user]) : transactions[user][i].amount >= 0

\* the card of upload u, before and after its Finishing step
UserOf(u) == req[u].user
CardIds(cs) == {cs[i].id : i \in 1..Len(cs)}
CardById(cs, id) == cs[CardIndex(cs, id)]

\* C2: an upload whose card info carries a last4 works on the user's card
\* with that last4 when there is one (same id, no new card) and creates
\* exactly one new card otherwise
C2_UpsertByLast4 ==
    [][\A u \in Uploads :
          (Finishing(u) /\ TruthyInfo(ext'[u].card_info)
                        /\ TruthyStr(ext'[u].card_info.v.last4))
          => LET before == cards[UserOf(u)]
                 after == cards'[UserOf(u)]
                 k == FindLast4(before, ext'[u].card_info.v.last4.v, 1)
             IN  /\ resp'[u].status = "ok"
                 /\ IF k > 0
                    THEN /\ Len(after) = Len(before)
                         /\ resp'[u].card_id = before[k].id
                    ELSE /\ Len(after) = Len(before) + 1
                         /\ resp'[u].card_id = after[Len(after)].id
                         /\ resp'[u].card_id \notin CardIds(before)]_vars

\* the number of stored transactions of the user (of the card, when card_id
\* is not 0) that the duplicate rule identifies with t
StoredCopies(user, card_id, t) ==
    Cardinality({i \in 1..Len(transactions[user]) :
                    /\ card_id # 0 => transactions[user][i].card_id = card_id
                    /\ SameKey(transactions[user][i], t)
                    /\ Abs(transactions[user][i].amount - t.amount) < DupTolerance})

SharedTx(u1, u2) ==
    {t \in {ext[u1].txs[i] : i \in 1..Len(ext[u1].txs)} :
        \E j \in 1..Len(ext[u2].txs) :
            SameKey(t, ext[u2].txs[j]) /\ t.amount = ext[u2].txs[j].amount}

Concurrent(u1, u2) ==
    /\ u1 # u2
    /\ {u1, u2} \in overlapped
    /\ FinishedOk(u1) /\ FinishedOk(u2)
    /\ UserOf(u1) = UserOf(u2)

Inserted(user) ==
    SubSeq(transactions'[user], Len(transactions[user]) + 1, Len(transactions'[user]))
InsertedCharges(user) ==
    SumSeq([i \in 1..Len(Inserted(user)) |->
              IF Inserted(user)[i].type = "charge" THEN Inserted(user)[i].amount ELSE 0])

\* C5 as claimed: an upload raises the balance of an existing card by the sum
\* of the charges it inserted
C5_BalanceDelta ==
    [][\A u \in Uploads :
          (Finishing(u) /\ resp'[u].status = "ok"
                        /\ resp'[u].card_id \in CardIds(cards[UserOf(u)]))
          => CardById(cards'[UserOf(u)], resp'[u].card_id).balance
                = CardById(cards[UserOf(u)], resp'[u].card_id).balance
                  + InsertedCharges(UserOf(u))]_vars

\* the balance the card upsert leaves: the statement's balance when card_info
\* has one, else the card's previous balance (0 for a new card)
UpsertBalance(u) ==
    LET info == ext'[u].card_info
        old == IF resp'[u].card_id \in CardIds(cards[UserOf(u)])
               THEN CardById(cards[UserOf(u)], resp'[u].card_id).balance ELSE 0
    IN  IF TruthyInfo(info) /\ IsVal(info.v.balance) THEN info.v.balance.v ELSE old

\* C5 as amended: an upload leaves the card's balance at the balance set by
\* the card upsert plus the sum of the charges it inserted
C5_BalanceOverUpsert ==
    [][\A u \in Uploads :
          (Finishing(u) /\ resp'[u].status = "ok")
          => CardById(cards'[UserOf(u)], resp'[u].card_id).balance
                = UpsertBalance(u) + InsertedCharges(UserOf(u))]_vars

\* an upload inserted a payment and a charge and discarded a duplicate
C5_Witness ==
    \E u \in Uploads :
        /\ FinishedOk(u)
        /\ resp[u].added < Len(ext[u].txs)
        /\ \E i, j \in 1..Len(resp[u].transactions) :
              /\ resp[u].transactions[i].category = "Payment"
              /\ resp[u].transactions[j].category = "Groceries"

\* C6: every upload ends with the normal response, and a disabled or raising
\* adapter gives a null card info and one placeholder transaction
C6_UploadNeverFails ==
    \A u \in Uploads :
        Finished(u)
        => /\ resp[u].status = "ok"
           /\ ext[u].path \in {"disabled", "raised", "malformed"}
                 => ext[u].card_info = Null /\ Len(ext[u].txs) = 1

\* C7: every summary request succeeds, with total_debt the sum of the first
\* projections' total_debt and one card summary per card showing the first
\* projection's projected_balance
C7_SummaryCorrect ==
    [][lastSummary' # lastSummary
       => LET user == lastSummary'.user
              r == lastSummary'.result
              cs == cards[user]
              first(i) == projections[user][cs[i].id][1]
          IN  /\ r.status = "ok"
              /\ cs = <<>> => r.total_debt = 0 /\ r.cards = <<>>
              /\ r.total_debt = SumSeq([i \in 1..Len(cs) |-> first(i).total_debt])
              /\ Len(r.cards) = Len(cs)
              /\ \A i \in 1..Len(cs) : r.cards[i].balance = first(i).projected_balance]_vars

\* C8: every card has exactly 6 projections, labelled with the months of
\* today + 30 * i days for i = 0..5
C8_SixProjections ==
    \A user \in Users :
        \A i \in 1..Len(cards[user]) :
            LET id == cards[user][i].id
            IN  /\ id \in DOMAIN projections[user]
                /\ Len(projections[user][id]) = 6
                /\ \A m \in 1..6 :
                      projections[user][id][m].month = MonthLabel(AddDays(today, 30 * (m - 1)))

\* a card went through the run of its creation and the run that ends the upload
C8_Witness ==
    \E u \in Uploads :
        /\ FinishedOk(u)
        /\ resp[u].added > 0
        /\ Len(projections[UserOf(u)][resp[u].card_id]) = 6

\* the card an upload worked on and its projections, after the Finishing step
CardAfter(u) == CardById(cards'[UserOf(u)], resp'[u].card_id)
ProjAfter(u) == projections'[UserOf(u)][resp'[u].card_id]
OrZero(f) == IF TruthyNum(f) THEN f.v ELSE 0

\* x is num/den thousandths rounded to the cent
IsRounded(x, num, den) ==
    /\ x % 10 = 0
    /\ 2 * den * x <= 2 * num + 10 * den
    /\ 2 * den * x >= 2 * num - 10 * den

\* C9 as claimed: month 0 shows the card's no_interest_payment and
\* minimum_payment (0 when it has none) and the interest balance * cat / 100 / 12
C9_MonthZeroExact ==
    [][\A u \in Uploads :
          (Finishing(u) /\ resp'[u].status = "ok")
          => LET card == CardAfter(u)
                 p == ProjAfter(u)[1]
             IN  /\ p.projected_balance = OrZero(card.no_interest_payment)
                 /\ p.projected_min_payment = OrZero(card.minimum_payment)
                 /\ p.projected_interest * 100 * 12 = card.balance * OrZero(card.cat)]_vars

\* C9 as amended: month 0 shows the card's no_interest_payment and
\* minimum_payment (0 when it has none) rounded to the cent, and the interest
\* balance * cat / 100 / 12 rounded to the cent when the balance is positive,
\* 0 when it is not
C9_MonthZeroRounded ==
    [][\A u \in Uploads :
          (Finishing(u) /\ resp'[u].status = "ok")
          => LET card == CardAfter(u)
                 p == ProjAfter(u)[1]
             IN  /\ IsRounded(p.projected_balance, OrZero(card.no_interest_payment), 1)
                 /\ IsRounded(p.projected_min_payment, OrZero(card.minimum_payment), 1)
                 /\ IF card.balance > 0
                    THEN IsRounded(p.projected_interest,
                                   card.balance * OrZero(card.cat), 100 * 12)
                    ELSE p.projected_interest = 0]_vars

\* an upload left a card with a cat, a credit balance and a
\* no_interest_payment that is not a whole number of cents
C9_Witness ==
    \E u \in Uploads :
        /\ FinishedOk(u)
        /\ \E i \in 1..Len(cards[UserOf(u)]) :
              LET card == cards[UserOf(u)][i]
                  p == projections[UserOf(u)][card.id][1]
              IN  /\ card.id = resp[u].card_id
                  /\ TruthyNum(card.cat) /\ card.balance < 0
                  /\ p.projected_interest = 0
                  /\ OrZero(card.no_interest_payment) % 10 # 0
                  /\ p.projected_balance > 0

\* M_i in units of 1/PlanDen thousandths: the sum of amount / installment_plan
\* over the card's MSI charges with installment_plan - i > 0
MsiDue(txs, card_id, i) ==
    SumSeq([j \in 1..Len(txs) |->
              IF /\ txs[j].card_id = card_id
                 /\ txs[j].type = "charge"
                 /\ TruthyNum(txs[j].installment_plan)
                 /\ txs[j].installment_plan.v - i > 0
              THEN Installment(txs[j].amount, txs[j].installment_plan.v, PlanDen)
              ELSE 0])

\* C10 as claimed: month i in 1..5 shows M_i as balance and no-interest
\* payment, 0.03 * M_i as minimum payment and no interest
C10_FutureMonthsExact ==
    [][\A u \in Uploads :
          (Finishing(u) /\ resp'[u].status = "ok")
          => \A i \in 1..5 :
                LET p == ProjAfter(u)[i + 1]
                    M == MsiDue(transactions'[UserOf(u)], resp'[u].card_id, i)
                IN  /\ p.projected_balance * PlanDen = M
                    /\ p.no_interest_payment * PlanDen = M
                    /\ p.projected_min_payment * 100 * PlanDen = 3 * M
                    /\ p.projected_interest = 0]_vars

\* C10 as amended: month i in 1..5 shows M_i rounded to the cent as balance
\* and no-interest payment, 0.03 * M_i rounded to the cent as minimum payment
\* when M_i > 0 and 0 when it is not, and no interest
C10_FutureMonthsRounded ==
    [][\A u \in Uploads :
          (Finishing(u) /\ resp'[u].status = "ok")
          => \A i \in 1..5 :
                LET p == ProjAfter(u)[i + 1]
                    M == MsiDue(transactions'[UserOf(u)], resp'[u].card_id, i)
                IN  /\ IsRounded(p.projected_balance, M, PlanDen)
                    /\ p.no_interest_payment = p.projected_balance
                    /\ IF M > 0
                       THEN IsRounded(p.projected_min_payment, 3 * M, 100 * PlanDen)
                       ELSE p.projected_min_payment = 0
                    /\ p.projected_interest = 0]_vars

\* a card has a plan that ends before month 3 and one that is still running,
\* with an installment that is not a whole number of cents
C10_Witness ==
    \E u \in Uploads :
        /\ FinishedOk(u)
        /\ LET ps == projections[UserOf(u)][resp[u].card_id]
               M(i) == MsiDue(transactions[UserOf(u)], resp[u].card_id, i)
           IN  /\ M(1) > 0 /\ M(1) % (10 * PlanDen) # 0
               /\ M(3) # M(1)
               /\ M(3) < 0
               /\ ps[2].projected_balance > 0
               /\ ps[4].projected_min_payment = 0

\* the payment of month i before rounding, in units of 1/PlanDen thousandths:
\* the card's no_interest_payment for month 0, M_i for months 1..5
Due(card, txs, i) ==
    IF i = 0 THEN OrZero(card.no_interest_payment) * PlanDen ELSE MsiDue(txs, card.id, i)

HasMsi(txs, card_id) ==
    \E j \in 1..Len(txs) : /\ txs[j].card_id = card_id
                           /\ txs[j].type = "charge"
                           /\ TruthyNum(txs[j].installment_plan)

\* C11: total_debt of month i is the sum of the payments of months i..5
\* rounded to the cent, so it is within a cent per month of the sum of the
\* emitted no_interest_payment values, total_debt[i] - total_debt[i+1] is
\* within a cent of month i's no_interest_payment, and without MSI
\* transactions month 0 shows the card's no_interest_payment and the later
\* months 0
C11_TotalDebtIsRemainingSum ==
    [][\A u \in Uploads :
          (Finishing(u) /\ resp'[u].status = "ok")
          => \A ps \in {ProjAfter(u)} :
             \A dues \in {[i \in 0..5 |-> Due(CardAfter(u), transactions'[UserOf(u)], i)]} :
                LET exact(i) == SumSeq([k \in 1..(6 - i) |-> dues[i + k - 1]])
                    emitted(i) == SumSeq([k \in 1..(6 - i) |-> ps[i + k].no_interest_payment])
                IN  /\ \A i \in 0..5 :
                          /\ IsRounded(ps[i + 1].total_debt, exact(i), PlanDen)
                          /\ IsRounded(ps[i + 1].no_interest_payment, dues[i], PlanDen)
                          /\ Abs(ps[i + 1].total_debt - emitted(i)) <= 10 * (6 - i)
                    /\ \A i \in 0..4 :
                          Abs(ps[i + 1].total_debt - ps[i + 2].total_debt
                              - ps[i + 1].no_interest_payment) <= 10
                    /\ ~HasMsi(transactions'[UserOf(u)], CardAfter(u).id)
                          => /\ ps[1].total_debt = ps[1].no_interest_payment
                             /\ \A i \in 1..5 : ps[i + 1].total_debt = 0]_vars

\* a card has an MSI plan that ends within the horizon and a
\* no_interest_payment, and the rounded total of month 1 differs from the sum
\* of the rounded payments
C11_Witness ==
    \E u \in Uploads :
        /\ FinishedOk(u)
        /\ HasMsi(transactions[UserOf(u)], resp[u].card_id)
        /\ LET ps == projections[UserOf(u)][resp[u].card_id]
           IN  /\ ps[1].no_interest_payment > 0
               /\ ps[2].total_debt > ps[4].total_debt
               /\ ps[2].total_debt #
                     SumSeq([k \in 1..5 |-> ps[k + 1].no_interest_payment])

\* C12: an upload whose card info names an existing card by last4 succeeds
\* and leaves each field at card_info's value when that is non-null and at
\* its prior value otherwise (the balance before the new charges are added)
C12_UpdateKeepsPrior ==
    [][\A u \in Uploads :
          (/\ Finishing(u)
           /\ TruthyInfo(ext'[u].card_info)
           /\ TruthyStr(ext'[u].card_info.v.last4)
           /\ FindLast4(cards[UserOf(u)], ext'[u].card_info.v.last4.v, 1) > 0)
          => LET ci == ext'[u].card_info.v
                 k == FindLast4(cards[UserOf(u)], ci.last4.v, 1)
                 before == cards[UserOf(u)][k]
                 after == cards'[UserOf(u)][k]
                 tagged(f, prior) == IF IsVal(f) THEN f ELSE prior
                 plain(f, prior) == IF IsVal(f) THEN f.v ELSE prior
             IN  /\ resp'[u].status = "ok"
                 /\ after.name = tagged(ci.name, before.name)
                 /\ after.issuer = tagged(ci.issuer, before.issuer)
                 /\ after.credit_limit = plain(ci.credit_limit, before.credit_limit)
                 /\ after.balance
                       = plain(ci.balance, before.balance) + InsertedCharges(UserOf(u))
                 /\ after.due_date_day = plain(ci.due_date_day, before.due_date_day)
                 /\ after.minimum_payment = tagged(ci.minimum_payment, before.minimum_payment)
                 /\ after.no_interest_payment
                       = tagged(ci.no_interest_payment, before.no_interest_payment)
                 /\ after.cat = tagged(ci.cat, before.cat)]_vars

\* candidate i of the upload that is Finishing was inserted
WasInserted(u, i) ==
    \E p \in (Len(transactions[UserOf(u)]) + 1)..Len(transactions'[UserOf(u)]) :
        transactions'[UserOf(u)][p].id = ext'[u].txs[i].id

\* the transactions of the upload's card that were stored when candidate i
\* was examined: those of before the upload and the inserted earlier candidates
StoredWhen(u, i) ==
    {t \in {transactions'[UserOf(u)][p] : p \in 1..Len(transactions'[UserOf(u)])} :
        /\ t.card_id = resp'[u].card_id
        /\ \/ \E p \in 1..Len(transactions[UserOf(u)]) : transactions[UserOf(u)][p] = t
           \/ \E j \in 1..(i - 1) : ext'[u].txs[j].id = t.id}

\* the description without any of its whitespace, lower-cased
Squeeze(s) == Lower(SelectSeq(s, LAMBDA c : c # " "))

\* C13 as claimed: a candidate is discarded exactly when a stored transaction
\* of the card has its date, its description up to case and whitespace, and
\* an amount less than 0.01 away
C13_DiscardIffLooseMatch ==
    [][\A u \in Uploads :
          (Finishing(u) /\ resp'[u].status = "ok")
          => \A i \in 1..Len(ext'[u].txs) :
                LET c == ext'[u].txs[i]
                IN  ~WasInserted(u, i)
                    <=> \E t \in StoredWhen(u, i) :
                           /\ t.date = c.date
                           /\ Squeeze(t.description) = Squeeze(c.description)
                           /\ Abs(t.amount - c.amount) < DupTolerance]_vars

\* C13 as amended: a candidate is discarded exactly when a stored transaction
\* of the card has its date, its description after trimming the ends and
\* lower-casing, and an amount less than 0.01 away
C13_DiscardIffTrimmedMatch ==
    [][\A u \in Uploads :
          (Finishing(u) /\ resp'[u].status = "ok")
          => \A i \in 1..Len(ext'[u].txs) :
                LET c == ext'[u].txs[i]
                IN  ~WasInserted(u, i)
                    <=> \E t \in StoredWhen(u, i) :
                           /\ t.date = c.date
                           /\ Lower(Strip(t.description)) = Lower(Strip(c.description))
                           /\ Abs(t.amount - c.amount) < DupTolerance]_vars

\* an upload discarded a candidate, and a card holds two transactions that
\* differ by the whitespace inside their descriptions only
C13_Witness ==
    /\ \E u \in Uploads : FinishedOk(u) /\ resp[u].added < Len(ext[u].txs)
    /\ \E user \in Users :
          \E k, l \in 1..Len(transactions[user]) :
              LET txs == transactions[user]
              IN  /\ k < l
                  /\ txs[k].card_id = txs[l].card_id
                  /\ txs[k].date = txs[l].date /\ txs[k].amount = txs[l].amount
                  /\ txs[k].description # txs[l].description
                  /\ Squeeze(txs[k].description) = Squeeze(txs[l].description)

\* the position among the candidates of the transaction with this id, 0 when
\* it is not a candidate
CandidateOf(u, id) ==
    IF \E i \in 1..Len(ext'[u].txs) : ext'[u].txs[i].id = id
    THEN CHOOSE i \in 1..Len(ext'[u].txs) : ext'[u].txs[i].id = id
    ELSE 0

\* C14: a successful upload appends to the user's stored list exactly the
\* candidates it reports as added, in the order of the input, each stored as
\* extracted with the card's id, and they are no more than the candidates
C14_ReturnsInsertedInOrder ==
    [][\A u \in Uploads :
          (Finishing(u) /\ resp'[u].status = "ok")
          => LET old == transactions[UserOf(u)]
                 new == transactions'[UserOf(u)]
                 ins == Inserted(UserOf(u))
                 ret == resp'[u].transactions
             IN  /\ Len(new) >= Len(old)
                 /\ SubSeq(new, 1, Len(old)) = old
                 /\ Len(ins) <= Len(ext'[u].txs)
                 /\ resp'[u].added = Len(ins)
                 /\ Len(ret) = Len(ins)
                 /\ \A i \in 1..Len(ins) :
                       /\ CandidateOf(u, ins[i].id) > 0
                       /\ ins[i] = [ext'[u].txs[CandidateOf(u, ins[i].id)]
                                       EXCEPT !.card_id = resp'[u].card_id]
                       /\ ret[i] = [description |-> ins[i].description,
                                    amount |-> ins[i].amount,
                                    date |-> ins[i].date,
                                    category |-> ins[i].category]
                 /\ \A i, j \in 1..Len(ins) :
                       i < j => CandidateOf(u, ins[i].id) < CandidateOf(u, ins[j].id)]_vars

\* an upload inserted at least two candidates that look different and left
\* a duplicate out
C14_Witness ==
    \E u \in Uploads :
        /\ FinishedOk(u)
        /\ resp[u].added >= 2
        /\ resp[u].added < Len(ext[u].txs)
        /\ resp[u].transactions[1] # resp[u].transactions[2]

\* C15: the coercion of a payload the adapter returned never raises: it
\* yields one transaction per item and per MSI plan, and an item's unusable
\* amount, date or installment_plan becomes 0, today or null
C15_MalformedFieldDegrades ==
    \A u \in Uploads :
        (Finished(u) /\ ext[u].path \in {"coerced", "malformed"})
        => LET data == File(req[u].file).data
               items == RawItems(data)
           IN  /\ ext[u].path = "coerced"
               /\ Len(ext[u].txs) = Len(items) + Len(RawPlans(data))
               /\ \A i \in 1..Len(items) :
                     /\ ~IsVal(items[i].amount) => ext[u].txs[i].amount = 0
                     /\ ~IsVal(items[i].date) => ext[u].txs[i].date = today
                     /\ ~IsVal(items[i].installment_plan)
                           => ext[u].txs[i].installment_plan = Null

\* C17: a payload with N items and P plans is coerced to N + P transactions:
\* the items in order, then one transaction per plan with category MSI, type
\* charge, the plan's total as amount, installment_total as installment_plan
\* and installment_index - 1 as months_paid, all ids distinct
C17_ItemsThenPlans ==
    \A u \in Uploads :
        (/\ Finished(u)
         /\ ext[u].path \in {"coerced", "malformed"}
         /\ File(req[u].file).data.msi.t # "null")
        => LET data == File(req[u].file).data
               items == RawItems(data)
               plans == RawPlans(data)
               txs == ext[u].txs
           IN  /\ Len(txs) = Len(items) + Len(plans)
               /\ \A i \in 1..Len(items) :
                     /\ txs[i].amount = Abs(NormalizeAmount(items[i].amount))
                     /\ txs[i].installment_plan = CoercePlan(items[i].installment_plan)
                     /\ txs[i].category # "MSI"
               /\ \A j \in 1..Len(plans) :
                     LET tx == txs[Len(items) + j]
                     IN  /\ tx.category = "MSI"
                         /\ tx.type = "charge"
                         /\ tx.amount = NormalizeAmount(plans[j].total_purchase_amount)
                         /\ tx.installment_plan = PlanTotal(plans[j])
                         /\ tx.months_paid = V(PlanIndex(plans[j]).v - 1)
               /\ \A i, j \in 1..Len(txs) : i # j => txs[i].id # txs[j].id

RECURSIVE AmountSum(_, _)
AmountSum(txs, S) ==
    IF S = {} THEN 0
    ELSE LET i == CHOOSE j \in S : TRUE IN txs[i].amount + AmountSum(txs, S \ {i})

\* the charges of txs in the scope of card_id
ChargesInScope(txs, card_id) ==
    {i \in 1..Len(txs) : /\ txs[i].type = "charge"
                          /\ (card_id = NoCard \/ txs[i].card_id = card_id)}

\* C19: for every user and every scope (one card, or all cards), the
\* aggregates have exactly one entry per category with a charge in scope, and
\* its total is the sum of the amounts of the charges of that category in
\* scope; payments add nothing and bring no entry
C19_AggregatesAreChargeSums ==
    \A user \in Users : \A card_id \in CardIds(cards[user]) \cup {NoCard} :
        LET txs == transactions[user]
            agg == category_aggregates(txs, card_id)
            scope == ChargesInScope(txs, card_id)
        IN  /\ \A k, l \in 1..Len(agg) : k # l => agg[k].category # agg[l].category
            /\ {agg[k].category : k \in 1..Len(agg)} = {txs[i].category : i \in scope}
            /\ \A k \in 1..Len(agg) :
                  agg[k].total
                    = AmountSum(txs, {i \in scope : txs[i].category = agg[k].category})

\* a user holds two cards with transactions; on one a category has two
\* charges, on one a category has only payments and is absent from the
\* card's aggregates, and the aggregates over all cards differ from each
\* card's own
C19_Witness ==
    \E user \in Users : \E c1, c2 \in CardIds(cards[user]) :
        LET txs == transactions[user]
        IN  /\ c1 # c2
            /\ \E k \in 1..Len(category_aggregates(txs, c1)) :
                  Cardinality({i \in ChargesInScope(txs, c1) :
                      txs[i].category = category_aggregates(txs, c1)[k].category}) >= 2
            /\ \E i \in 1..Len(txs) :
                  /\ txs[i].card_id = c2 /\ txs[i].type = "payment" /\ txs[i].amount > 0
                  /\ \A k \in 1..Len(category_aggregates(txs, c2)) :
                        category_aggregates(txs, c2)[k].category # txs[i].category
            /\ category_aggregates(txs, NoCard) # category_aggregates(txs, c1)
            /\ category_aggregates(txs, NoCard) # category_aggregates(txs, c2)
            /\ category_aggregates(txs, c1) # <<>>
            /\ category_aggregates(txs, c2) # <<>>

\* dt1 is a later day than dt2
After(dt1, dt2) ==
    \/ dt1[1] > dt2[1]
    \/ dt1[1] = dt2[1] /\ dt1[2] > dt2[2]
    \/ dt1[1] = dt2[1] /\ dt1[2] = dt2[2] /\ dt1[3] > dt2[3]

NextMonth(dt) == IF dt[2] = 12 THEN <<dt[1] + 1, 1>> ELSE <<dt[1], dt[2] + 1>>

\* C20: for every today and every due_day of 1..31 the next due date is a
\* valid date strictly after today, in today's month when today's day is
\* before due_day and in the following month otherwise, on the day
\* min(due_day, days of that month)
C20_NextDueDateIsFuture ==
    due # NoDue
    => /\ ValidDate(due.date)
       /\ After(due.date, today)
       /\ today[3] < due.due_day => MonthLabel(due.date) = MonthLabel(today)
       /\ today[3] >= due.due_day => MonthLabel(due.date) = NextMonth(today)
       /\ due.date[3] = IF due.due_day <= DaysInMonth(due.date[1], due.date[2])
                        THEN due.due_day ELSE DaysInMonth(due.date[1], due.date[2])

\* what GET /dashboard/card/{card_id} returns when it reads the store state
\* st as a whole
DetailView(st, card_id) ==
    [card |-> CardById(st.cards, card_id),
     transactions |-> list_transactions(st.transactions, card_id),
     category_aggregates |-> category_aggregates(st.transactions, card_id),
     projections |-> list_projections(st, card_id)]

\* C16: the card, transactions, category aggregates and projections that a
\* card detail request returns are those of one store state between
\* mutation units: the one before an upload's unit or the one after it
C16_ReadsAreSnapshots ==
    detail.stage = "done"
    => \E st \in detail.seen :
          /\ detail.card_id \in CardIds(st.cards)
          /\ DetailView(st, detail.card_id)
                = [card |-> detail.card,
                   transactions |-> detail.transactions,
                   category_aggregates |-> detail.category_aggregates,
                   projections |-> detail.projections]

\* a stand-alone run of the engine for the card that the previous run was for
Rerun ==
    /\ lastRun.user # 0
    /\ lastRun'.user = lastRun.user
    /\ lastRun'.card_id = lastRun.card_id
    /\ today' = today

WithMonthsPaid(txs, paid) == [j \in 1..Len(txs) |-> [txs[j] EXCEPT !.months_paid = paid]]

Min(a, b) == IF a <= b THEN a ELSE b

\* amount/N in the months 1..min(N - 1, 5) and nothing in any other,
\* summed over the MSI charges of the card
PlanShare(txs, card_id, i) ==
    SumSeq([j \in 1..Len(txs) |->
              IF /\ txs[j].card_id = card_id
                 /\ txs[j].type = "charge"
                 /\ TruthyNum(txs[j].installment_plan)
                 /\ i \in 1..Min(txs[j].installment_plan.v - 1, 5)
              THEN Installment(txs[j].amount, txs[j].installment_plan.v, PlanDen)
              ELSE 0])

\* C23: the list a run stores for a card is the list it would store from a
\* ledger with any other months_paid, and month i of 1..5 shows the sum of
\* amount/N over the card's MSI charges with i <= min(N - 1, 5)
C23_MonthsPaidIgnored ==
    lastRun.user # 0
    => LET user == lastRun.user
           card == CardById(cards[user], lastRun.card_id)
           ps == projections[user][card.id]
       IN  /\ \A paid \in {Null, V(0), V(1), V(2), V(5)} :
                 ps = Projections(card, WithMonthsPaid(transactions[user], paid),
                                  PlanDen, lastRun.date)
           /\ \A i \in 1..5 :
                 ps[i + 1].projected_balance
                    = Round2(PlanShare(transactions[user], card.id, i), PlanDen)

\* the engine ran for a card holding a 3-month plan with one month paid and
\* one with none paid; month 2 carries installments that month 3 no longer
\* does
C23_Witness ==
    /\ lastRun.user # 0
    /\ LET txs == transactions[lastRun.user]
           ps == projections[lastRun.user][lastRun.card_id]
       IN  /\ \E j, k \in 1..Len(txs) :
                 /\ txs[j].card_id = lastRun.card_id /\ txs[k].card_id = lastRun.card_id
                 /\ txs[j].type = "charge" /\ txs[k].type = "charge"
                 /\ txs[j].installment_plan = V(3) /\ txs[k].installment_plan = V(3)
                 /\ txs[j].months_paid = V(1) /\ txs[k].months_paid = V(0)
                 /\ txs[j].amount > 0 /\ txs[k].amount > 0
           /\ ps[3].projected_balance > 0
           /\ ps[3].projected_balance > ps[4].projected_balance

\* the calendar month i months after the month ym
MonthAfter(ym, i) ==
    <<ym[1] + ((ym[2] - 1 + i) \div 12), ((ym[2] - 1 + i) % 12) + 1>>

\* C30: the six records a run stores are labelled with the month of the
\* run and the five months that follow it, each once
C30_SixConsecutiveMonths ==
    lastRun.user # 0
    => LET ps == projections[lastRun.user][lastRun.card_id]
       IN  /\ Len(ps) = 6
           /\ \A i \in 0..5 : ps[i + 1].month = MonthAfter(MonthLabel(lastRun.date), i)

\* C22: a registered user who POSTs a body with a content field to
\* /chat/send gets status 200 and a body whose message has role assistant,
\* with or without cards
C22_ChatSendAnswers ==
    (/\ lastChat.user # 0
     /\ lastChat.path = "/chat/send"
     /\ "content" \in DOMAIN lastChat.body)
    => /\ lastChat.response.status = 200
       /\ "message" \in DOMAIN lastChat.response.body
       /\ lastChat.response.body.message.role = "assistant"

\* C24: between two requests every card holds the projections that the
\* engine computes from the card as it is stored and from the transactions
\* stored for it
C24_ProjectionsCurrent ==
    unit = NoUnit
    => \A user \in Users : \A k \in 1..Len(cards[user]) :
          list_projections(St(user), cards[user][k].id)
             = Projections(cards[user][k], transactions[user], PlanDen, today)

\* the users for whom an upload takes a step
Acting ==
    {req'[u].user : u \in {v \in Uploads : pc'[v] # pc[v] \/ unit.u = v}}

\* every card and transaction of a partition carries the partition's user
Owned ==
    \A user \in Users :
        /\ \A k \in 1..Len(cards[user]) : cards[user][k].user_id = user
        /\ \A j \in 1..Len(transactions[user]) : transactions[user][j].user_id = user

\* C25: a step changes the cards, transactions and projections of no user
\* but the one whose request it serves, and every stored card and
\* transaction carries the id of the user it is stored under
C25_UsersIsolated ==
    [][/\ \A b \in Users :
             (\/ cards'[b] # cards[b]
              \/ transactions'[b] # transactions[b]
              \/ projections'[b] # projections[b]) => b \in Acting
       /\ Owned']_vars

\* two users hold cards and transactions, and the later upload was the
\* second user's
C25_Witness ==
    /\ Len(cards) = 2
    /\ cards[1] # <<>> /\ cards[2] # <<>>
    /\ transactions[1] # <<>> /\ transactions[2] # <<>>
    /\ FinishedOk(1) /\ FinishedOk(2)
    /\ req[1].user = 1 /\ req[2].user = 2

\* C26: in every step each user's cards stay in the card list with their
\* ids and each stored transaction stays with all its fields
C26_LedgerOnlyGrows ==
    [][\A user \in Users :
          /\ Len(cards'[user]) >= Len(cards[user])
          /\ \A k \in 1..Len(cards[user]) : cards'[user][k].id = cards[user][k].id
          /\ Len(transactions'[user]) >= Len(transactions[user])
          /\ \A j \in 1..Len(transactions[user]) :
                transactions'[user][j] = transactions[user][j]]_vars

\* a second upload of a user updated the first card's balance, created a
\* second card and stored more transactions behind the earlier ones
C26_Witness ==
    \E user \in Users :
        /\ FinishedOk(1) /\ FinishedOk(2)
        /\ req[1].user = user /\ req[2].user = user
        /\ resp[1].added > 0 /\ resp[2].added > 0
        /\ Len(transactions[user]) = resp[1].added + resp[2].added
        /\ \E c1, c2 \in CardIds(cards[user]) :
              /\ c1 # c2
              /\ \E i, j \in 1..Len(transactions[user]) :
                    transactions[user][i].card_id = c1 /\ transactions[user][j].card_id = c2

\* the upload v ended normally before, for the same user, with the same
\* file and the same extraction result as the one upload u is ending with
Repeats(u, v) ==
    /\ v # u
    /\ FinishedOk(v)
    /\ Finishing(u)
    /\ req[v] = req[u]
    /\ ext[v].path = ext'[u].path
    /\ ext[v].card_info = ext'[u].card_info
    /\ Len(ext[v].txs) = Len(ext'[u].txs)

\* C27: a second upload of the same statement on the same day inserts no
\* transaction, creates no card and leaves the card's balance and projections
\* as they were after the first upload, also when the statement has no last4
C27_UploadIdempotent ==
    [][\A u, v \in Uploads :
          Repeats(u, v)
          => /\ resp'[u].status = "ok"
             /\ resp'[u].added = 0
             /\ resp'[u].card_id = resp[v].card_id
             /\ Len(cards'[UserOf(u)]) = Len(cards[UserOf(u)])
             /\ CardAfter(u).balance = CardById(cards[UserOf(u)], resp[v].card_id).balance
             /\ ProjAfter(u) = projections[UserOf(u)][resp[v].card_id]]_vars

\* C28: no two cards of one user have the same last4, the default "0000"
\* of a statement without last4 included
C28_Last4Unique ==
    \A user \in Users :
        \A i, j \in 1..Len(cards[user]) :
            cards[user][i].last4 = cards[user][j].last4 => i = j

\* what identifies the installment plan behind a stored MSI transaction: its
\* card, merchant (the description without " (MSI i of n)"), purchase date,
\* total amount and number of installments
PlanKey(t) ==
    [card_id |-> t.card_id,
     merchant |-> SubSeq(t.description, 1, Len(t.description) - 5),
     date |-> t.date,
     amount |-> t.amount,
     installment_total |-> t.installment_plan]

\* C29: an installment plan reported by successive statements of a card is
\* stored as one MSI transaction, so that its installment enters a projected
\* month once
C29_PlanStoredOnce ==
    \A user \in Users :
        \A i, j \in 1..Len(transactions[user]) :
            LET a == transactions[user][i]
                b == transactions[user][j]
            IN  (a.category = "MSI" /\ b.category = "MSI" /\ PlanKey(a) = PlanKey(b)) => i = j

====
